---- MODULE Spec2Model ----
(***************************************************************************)
(* Model of the worker pool of src/src/lib.rs: ThreadPool (new, build,     *)
(* execute, Drop) and the loop of the thread that Worker::new spawns,      *)
(* over a crossbeam unbounded channel whose Receiver sits in an            *)
(* Arc<Mutex<..>> shared by the worker threads.                            *)
(***************************************************************************)
EXTENDS Integers, Sequences, FiniteSets, TLC

\* Largest pool size a constructor is called with (0 is included).
MaxSize == 2
\* Largest number of execute calls in one run.
MaxJobs == 3

\* What the closure handed to execute does when it is invoked: it returns,
\* it never returns, or it panics.
JobKinds == {"normal", "block", "panic"}

JobIds == 1..MaxJobs

\* Values of msg[i], the `message` of worker i: nothing yet, Err(RecvError),
\* or Ok(job) written as the job's number (> 0).
NoMsg == 0
MsgErr == -1

\* lockHolder when the Mutex around the Receiver is free.
Free == 0

VARIABLES
  caller,      \* where the thread that owns the pool is
  ctor,        \* the constructor that was called: "none", "new", "build"
  size,        \* the size the constructor was called with (-1: not called)
  result,      \* what the constructor gave back
  chan,        \* "none": channel::unbounded() was never called; "open"
  sender,      \* ThreadPool.sender: "some" or "none"
  workers,     \* ThreadPool.workers: sequence of Worker records
  wpc,         \* wpc[i]: where the thread of workers[i] is in its loop
  msg,         \* msg[i]: the message worker i got from recv()
  lockHolder,  \* index of the worker holding the MutexGuard, or Free
  poisoned,    \* the Mutex was poisoned by a panic under the guard
  queue,       \* the jobs in the channel, oldest first
  kind,        \* kind[j]: what job j does ("none": not submitted)
  jstate,      \* jstate[j]: where job j is
  invoked,     \* invoked[j]: how many times job() was called on j
  taken,       \* the jobs in the order recv() removed them from the channel
  dropIdx,     \* Drop: index of the worker being joined (0: not dropping)
  nsub,        \* number of execute calls made
  hpc,         \* handle_connection: "idle", "accepted" or "responded"
  request,     \* the first line read from the stream, terminator stripped
  files,       \* files[f]: the text of ./html/f, a sequence of characters
  response     \* what handle_connection wrote to the stream

vars == <<caller, ctor, size, result, chan, sender, workers, wpc, msg,
          lockHolder, poisoned, queue, kind, jstate, invoked, taken,
          dropIdx, nsub, hpc, request, files, response>>

\* The state of the connection handler.
hvars == <<hpc, request, files, response>>

\* The state of the pool.
pvars == <<caller, ctor, size, result, chan, sender, workers, wpc, msg,
           lockHolder, poisoned, queue, kind, jstate, invoked, taken,
           dropIdx, nsub>>

\* The resources the handler reads from ./html.
FileNames == {"home.html", "about.html", "404.html"}

\* Nothing written to the stream yet.
NoResponse == [status_line |-> "", content_length |-> <<>>, body |-> <<>>]

\* A worker thread that has finished, by break or by unwinding.
Ended == {"stopped", "panicked"}

WorkerIdx == 1..Len(workers)

\* Number of live clones of the Arc around the Receiver. ThreadPool::new's
\* own `rx` is gone when it returns, so the clones are the ones moved into
\* the closures of the threads that are still running.
Receivers == Cardinality({i \in WorkerIdx : wpc[i] \notin Ended})

\* The pool before a constructor is called.
PoolInit ==
  /\ caller = "start"
  /\ ctor = "none"
  /\ size = -1
  /\ result = "none"
  /\ chan = "none"
  /\ sender = "none"
  /\ workers = <<>>
  /\ wpc = <<>>
  /\ msg = <<>>
  /\ lockHolder = Free
  /\ poisoned = FALSE
  /\ queue = <<>>
  /\ kind = [j \in JobIds |-> "none"]
  /\ jstate = [j \in JobIds |-> "unsubmitted"]
  /\ invoked = [j \in JobIds |-> 0]
  /\ taken = <<>>
  /\ dropIdx = 0
  /\ nsub = 0

\* No connection is being handled.
Init ==
  /\ PoolInit
  /\ hpc = "idle"
  /\ request = ""
  /\ files = [f \in FileNames |-> <<>>]
  /\ response = NoResponse

----------------------------------------------------------------------------
\* Construction: ThreadPool::new and ThreadPool::build.

\* assert!(size > 0), first statement of new.
SizeAssertSkipped(n) == TRUE
SizeAssert(n) == n > 0

\* match size { 0 => Err(SizeZero), _ => Ok(..) } of build.
BuildMatchNoZeroArm(n) == "Ok"
BuildMatch(n) == IF n = 0 THEN "SizeZero" ELSE "Ok"

\* for i in 0..size { workers.push(Worker::new(i, Arc::clone(&rx))) }:
\* worker i is pushed at index i+1; every one gets a clone of the same Arc,
\* written as the number of the one channel.
SpawnWorkersOffByOne(n) ==
  [i \in 1..(n - 1) |-> [id |-> i, thread |-> "some", rx |-> 1]]
SpawnWorkers(n) ==
  [i \in 1..n |-> [id |-> i - 1, thread |-> "some", rx |-> 1]]

\* The part new and build share: channel, Arc<Mutex<rx>>, the spawn loop and
\* the ThreadPool value. Every spawned thread starts at rx.lock().
CreatePool(n) ==
  /\ chan' = "open"
  /\ sender' = "some"
  /\ workers' = SpawnWorkers(n)
  /\ wpc' = [i \in DOMAIN workers' |-> "lock"]
  /\ msg' = [i \in DOMAIN workers' |-> NoMsg]
  /\ caller' = "live"

New(n) ==
  /\ caller = "start"
  /\ ctor' = "new"
  /\ size' = n
  /\ IF SizeAssert(n)
       THEN /\ CreatePool(n)
            /\ result' = "ThreadPool"
       ELSE /\ caller' = "aborted"
            /\ result' = "panic"
            /\ UNCHANGED <<chan, sender, workers, wpc, msg>>
  /\ UNCHANGED <<lockHolder, poisoned, queue, kind, jstate, invoked, taken,
                 dropIdx, nsub>>
  /\ UNCHANGED hvars

Build(n) ==
  /\ caller = "start"
  /\ ctor' = "build"
  /\ size' = n
  /\ IF BuildMatch(n) = "SizeZero"
       THEN /\ caller' = "buildErr"
            /\ result' = "Err(SizeZero)"
            /\ UNCHANGED <<chan, sender, workers, wpc, msg>>
       ELSE /\ CreatePool(n)
            /\ result' = "Ok(ThreadPool)"
  /\ UNCHANGED <<lockHolder, poisoned, queue, kind, jstate, invoked, taken,
                 dropIdx, nsub>>
  /\ UNCHANGED hvars

----------------------------------------------------------------------------
\* Submission: ThreadPool::execute.

\* Sender::send on the unbounded channel: Err(SendError) exactly when every
\* Receiver clone is gone, otherwise the message is appended; it never waits
\* for room. rcv is the number of live receivers, q the channel's content.
SendResultSilentlyOk(rcv, q) == "Ok"
SendResultRendezvous(rcv, q) ==
  IF rcv = 0 THEN "Err" ELSE IF Len(q) > 0 THEN "Full" ELSE "Ok"
SendResult(rcv, q) == IF rcv = 0 THEN "Err" ELSE "Ok"

\* self.sender.as_ref().unwrap().send(job).unwrap() with a job of kind k.
\* Either unwrap panics in the calling thread; the boxed job is then dropped
\* without having been queued.
Execute(k) ==
  /\ caller = "live"
  /\ nsub < MaxJobs
  /\ nsub' = nsub + 1
  /\ kind' = [kind EXCEPT ![nsub + 1] = k]
  /\ IF sender = "none"
       THEN /\ caller' = "execPanicked"
            /\ jstate' = [jstate EXCEPT ![nsub + 1] = "rejected"]
            /\ UNCHANGED queue
       ELSE /\ SendResult(Receivers, queue) # "Full"
            /\ IF SendResult(Receivers, queue) = "Ok"
                 THEN /\ queue' = Append(queue, nsub + 1)
                      /\ jstate' = [jstate EXCEPT ![nsub + 1] = "queued"]
                      /\ UNCHANGED caller
                 ELSE /\ caller' = "execPanicked"
                      /\ jstate' = [jstate EXCEPT ![nsub + 1] = "rejected"]
                      /\ UNCHANGED queue
  /\ UNCHANGED <<ctor, size, result, chan, sender, workers, wpc, msg,
                 lockHolder, poisoned, invoked, taken, dropIdx>>
  /\ UNCHANGED hvars

----------------------------------------------------------------------------
\* The worker thread: the closure of Worker::new, one loop iteration being
\*   let message = rx.lock().unwrap().recv();  match message { .. }

\* Whether the thread of worker i is the last one holding a Receiver clone.
LastReceiver(i) == \A w \in WorkerIdx \ {i} : wpc[w] \in Ended

\* The channel after the thread of worker i has ended: when the last Arc
\* clone goes, the Receiver is dropped and the channel discards what it held
\* (crossbeam's disconnect_receivers). Whether the messages are freed then
\* or with the channel, no thread is left that could run them.
QueueAfterEnd(i) == IF LastReceiver(i) THEN <<>> ELSE queue

\* jstate after worker i's thread has ended, js being jstate with the
\* thread's own job already accounted for.
JstateAfterEnd(i, js) ==
  IF LastReceiver(i)
    THEN [j \in JobIds |-> IF js[j] = "queued" THEN "discarded" ELSE js[j]]
    ELSE js

\* Mutex::lock: the guard is granted only while no other thread holds it.
CanLockNoExclusion(i) == TRUE
CanLock(i) == lockHolder = Free

\* rx.lock().unwrap(): blocks while another worker holds the guard; on a
\* poisoned Mutex lock() gives Err and unwrap panics, ending the thread.
Lock(i) ==
  /\ i \in WorkerIdx
  /\ wpc[i] = "lock"
  /\ CanLock(i)
  /\ IF poisoned
       THEN /\ wpc' = [wpc EXCEPT ![i] = "panicked"]
            /\ queue' = QueueAfterEnd(i)
            /\ jstate' = JstateAfterEnd(i, jstate)
            /\ UNCHANGED lockHolder
       ELSE /\ wpc' = [wpc EXCEPT ![i] = "recv"]
            /\ lockHolder' = i
            /\ UNCHANGED <<queue, jstate>>
  /\ UNCHANGED <<caller, ctor, size, result, chan, sender, workers, msg,
                 poisoned, kind, invoked, taken, dropIdx, nsub>>
  /\ UNCHANGED hvars

\* Receiver::recv gives Err(RecvError) only when the channel is empty and
\* every Sender is gone; messages sent before the Sender was dropped are
\* still delivered.
RecvDisconnectedIgnoresPending(q, s) == s = "none"
RecvDisconnected(q, s) == q = <<>> /\ s = "none"

\* The position in the channel of the message recv hands out: the oldest.
RecvIndexNewest(q) == Len(q)
RecvIndex(q) == 1

\* The channel once recv has handed out the message at position n.
AfterRecvNotRemoved(q, n) == q
AfterRecv(q, n) == [k \in 1..(Len(q) - 1) |-> IF k < n THEN q[k] ELSE q[k + 1]]

\* The MutexGuard is a temporary of the `let message = ..` statement: it is
\* dropped at the statement's end, before the match runs.
GuardDroppedAfterLetHeldThroughMatch == FALSE
GuardDroppedAfterLet == TRUE

\* recv() under the guard: blocks while the channel is empty and the Sender
\* lives; else yields Ok(job) or Err, and the statement ends.
Recv(i) ==
  /\ i \in WorkerIdx
  /\ wpc[i] = "recv"
  /\ queue # <<>> \/ RecvDisconnected(queue, sender)
  /\ IF RecvDisconnected(queue, sender)
       THEN /\ msg' = [msg EXCEPT ![i] = MsgErr]
            /\ UNCHANGED <<queue, taken, jstate>>
       ELSE LET n == RecvIndex(queue)
                j == queue[n]
            IN /\ msg' = [msg EXCEPT ![i] = j]
               /\ queue' = AfterRecv(queue, n)
               /\ taken' = Append(taken, j)
               /\ jstate' = [jstate EXCEPT ![j] = "received"]
  /\ wpc' = [wpc EXCEPT ![i] = "match"]
  /\ lockHolder' = IF GuardDroppedAfterLet THEN Free ELSE lockHolder
  /\ UNCHANGED <<caller, ctor, size, result, chan, sender, workers, poisoned,
                 kind, invoked, dropIdx, nsub>>
  /\ UNCHANGED hvars

\* match message: Ok(job) => { info!(..); job() } calls the job;
\* Err(_) => { error!(..); break } ends the loop and with it the thread.
Match(i) ==
  /\ i \in WorkerIdx
  /\ wpc[i] = "match"
  /\ IF msg[i] = MsgErr
       THEN /\ wpc' = [wpc EXCEPT ![i] = "stopped"]
            /\ msg' = [msg EXCEPT ![i] = NoMsg]
            /\ lockHolder' = IF lockHolder = i THEN Free ELSE lockHolder
            /\ queue' = QueueAfterEnd(i)
            /\ jstate' = JstateAfterEnd(i, jstate)
            /\ UNCHANGED invoked
       ELSE /\ wpc' = [wpc EXCEPT ![i] = "job"]
            /\ invoked' = [invoked EXCEPT ![msg[i]] = @ + 1]
            /\ jstate' = [jstate EXCEPT ![msg[i]] = "running"]
            /\ UNCHANGED <<msg, lockHolder, queue>>
  /\ UNCHANGED <<caller, ctor, size, result, chan, sender, workers, poisoned,
                 kind, taken, dropIdx, nsub>>
  /\ UNCHANGED hvars

\* job() returns: the match arm ends and the loop goes back to rx.lock().
JobReturns(i) ==
  /\ i \in WorkerIdx
  /\ wpc[i] = "job"
  /\ kind[msg[i]] = "normal"
  /\ wpc' = [wpc EXCEPT ![i] = "lock"]
  /\ jstate' = [jstate EXCEPT ![msg[i]] = "done"]
  /\ msg' = [msg EXCEPT ![i] = NoMsg]
  /\ lockHolder' = IF lockHolder = i THEN Free ELSE lockHolder
  /\ UNCHANGED <<caller, ctor, size, result, chan, sender, workers, poisoned,
                 queue, kind, invoked, taken, dropIdx, nsub>>
  /\ UNCHANGED hvars

\* job() panics: nothing in the loop catches it, so the thread unwinds and
\* ends, dropping its Receiver clone; a guard still held would be dropped
\* during the unwinding, which poisons the Mutex.
JobPanics(i) ==
  /\ i \in WorkerIdx
  /\ wpc[i] = "job"
  /\ kind[msg[i]] = "panic"
  /\ wpc' = [wpc EXCEPT ![i] = "panicked"]
  /\ msg' = [msg EXCEPT ![i] = NoMsg]
  /\ poisoned' = (poisoned \/ lockHolder = i)
  /\ lockHolder' = IF lockHolder = i THEN Free ELSE lockHolder
  /\ queue' = QueueAfterEnd(i)
  /\ jstate' = JstateAfterEnd(i, [jstate EXCEPT ![msg[i]] = "panicked"])
  /\ UNCHANGED <<caller, ctor, size, result, chan, sender, workers, kind,
                 invoked, taken, dropIdx, nsub>>
  /\ UNCHANGED hvars

\* A job of kind "block" never returns: a worker running one has no step.
WorkerStep(i) == Lock(i) \/ Recv(i) \/ Match(i) \/ JobReturns(i) \/ JobPanics(i)

----------------------------------------------------------------------------
\* Disposal: Drop for ThreadPool.

\* drop(self.sender.take()): the only Sender goes, the channel is
\* disconnected on the sending side. Runs when the owner lets go of the
\* pool, also while the owner unwinds from a panic in execute.
DropBeginKeepsSender ==
  /\ caller \in {"live", "execPanicked"}
  /\ caller' = "dropping"
  /\ dropIdx' = 1
  /\ UNCHANGED <<ctor, size, result, chan, sender, workers, wpc, msg,
                 lockHolder, poisoned, queue, kind, jstate, invoked, taken,
                 nsub>>
  /\ UNCHANGED hvars
DropBegin ==
  /\ caller \in {"live", "execPanicked"}
  /\ sender' = "none"
  /\ caller' = "dropping"
  /\ dropIdx' = 1
  /\ UNCHANGED <<ctor, size, result, chan, workers, wpc, msg, lockHolder,
                 poisoned, queue, kind, jstate, invoked, taken, nsub>>
  /\ UNCHANGED hvars

\* JoinHandle::join returns only once the thread has finished.
JoinReturnsNoWait(i) == TRUE
JoinReturns(i) == wpc[i] \in Ended

\* One iteration of `for worker in &mut self.workers`: worker.thread.take()
\* and thread.join().unwrap(). join gives Err when the thread panicked, and
\* the unwrap then panics inside drop; after the last worker drop returns.
DropJoin ==
  /\ caller = "dropping"
  /\ dropIdx \in WorkerIdx
  /\ JoinReturns(dropIdx)
  /\ workers' = [workers EXCEPT ![dropIdx].thread = "none"]
  /\ IF wpc[dropIdx] = "panicked"
       THEN /\ caller' = "dropPanicked"
            /\ UNCHANGED dropIdx
       ELSE /\ dropIdx' = dropIdx + 1
            /\ caller' = IF dropIdx = Len(workers) THEN "dropped" ELSE "dropping"
  /\ UNCHANGED <<ctor, size, result, chan, sender, wpc, msg, lockHolder,
                 poisoned, queue, kind, jstate, invoked, taken, nsub>>
  /\ UNCHANGED hvars

----------------------------------------------------------------------------
\* The connection handler: handle_connection of src/src/main.rs, the job
\* that main submits for every accepted connection.

\* Largest number of characters in a file of ./html.
MaxChars == 3

\* A character of a Rust String is written as the number of bytes of its
\* UTF-8 encoding.
CharWidths == {1, 4}

\* The texts a file may hold.
Contents == UNION {[1..n -> CharWidths] : n \in 0..MaxChars}

\* The request lines tried: the two routes and lines that differ from them.
RequestLines ==
  {"GET / HTTP/1.1", "GET /about HTTP/1.1", "GET /missing HTTP/1.1",
   "GET / HTTP/1.0", "get / http/1.1", "POST /about HTTP/1.1", ""}

\* A Rust String as the bytes write_all sends: a character of width w is a
\* lead byte, written w, followed by w - 1 continuation bytes, written 0.
RECURSIVE Bytes(_)
Bytes(str) ==
  IF str = <<>> THEN <<>>
  ELSE [k \in 1..Head(str) |-> IF k = 1 THEN Head(str) ELSE 0]
         \o Bytes(Tail(str))

\* String::len: the length in bytes, not in characters.
StrLenCountsChars(str) == Len(str)
StrLen(str) == Len(Bytes(str))

\* format!("{length}") of a usize: its decimal digits, most significant
\* first, "0" for zero.
RECURSIVE FormatUsize(_)
FormatUsize(n) ==
  IF n < 10 THEN <<n>> ELSE Append(FormatUsize(n \div 10), n % 10)

\* match &request_line[..]: the status line and the file name.
MatchRequest(line) ==
  CASE line = "GET / HTTP/1.1" -> <<"HTTP/1.1 200 OK", "home.html">>
    [] line = "GET /about HTTP/1.1" -> <<"HTTP/1.1 200 OK", "about.html">>
    [] OTHER -> <<"HTTP/1.1 404 NOT FOUND", "404.html">>

\* handle_connection on a stream whose first line is `request`: match the
\* line, read the file, format the response and write it. The response
\* "{status_line}\r\nContent-Length: {length}\r\n\r\n{contents}" is kept as
\* its three varying parts.
HandleConnection ==
  /\ hpc = "accepted"
  /\ LET status_line == MatchRequest(request)[1]
         filename == MatchRequest(request)[2]
         contents == files[filename]
         length == StrLen(contents)
     IN response' = [status_line |-> status_line,
                     content_length |-> FormatUsize(length),
                     body |-> Bytes(contents)]
  /\ hpc' = "responded"
  /\ UNCHANGED <<request, files>>
  /\ UNCHANGED pvars

\* A connection was accepted: any of the request lines, any texts in the
\* three files; the pool is not looked at.
HandlerInit ==
  /\ PoolInit
  /\ hpc = "accepted"
  /\ request \in RequestLines
  /\ files \in [FileNames -> Contents]
  /\ response = NoResponse

HandlerNext == HandleConnection

HandlerSpec == HandlerInit /\ [][HandlerNext]_vars

----------------------------------------------------------------------------
\* Specifications.

Construct == \E n \in 0..MaxSize : New(n) \/ Build(n)

Workers == \E i \in 1..MaxSize : WorkerStep(i)

Dispose == DropBegin \/ DropJoin

\* Jobs of every kind.
Next == Construct \/ (\E k \in JobKinds : Execute(k)) \/ Workers \/ Dispose

Spec == Init /\ [][Next]_vars

\* Each worker is an OS thread of its own: one that can take a step is
\* eventually scheduled.
Fairness == \A i \in 1..MaxSize : WF_vars(WorkerStep(i))

\* Jobs of every kind, fairly scheduled worker threads.
FairSpec == Spec /\ Fairness

\* The thread that runs drop is an OS thread as well: once a join can
\* return, drop goes on. Nothing makes the owner start the disposal.
DisposeFairness == WF_vars(DropJoin)

DisposeFairSpec == Spec /\ Fairness /\ DisposeFairness

----------------------------------------------------------------------------
\* Helpers of the properties.

Submitted == {j \in JobIds : kind[j] # "none"}

\* No job submitted in the run blocks or panics.
AllJobsWellBehaved == \A j \in JobIds : kind[j] \in {"none", "normal"}

\* No job submitted in the run panics and at most one never returns.
OneBlockingJob ==
  /\ \A j \in JobIds : kind[j] # "panic"
  /\ Cardinality({j \in JobIds : kind[j] = "block"}) <= 1

\* No job submitted in the run blocks (jobs may panic).
NoBlockingJob == \A j \in JobIds : kind[j] # "block"

\* The pool was constructed (new returned, or build returned Ok).
PoolBuilt == result \in {"ThreadPool", "Ok(ThreadPool)"}

----------------------------------------------------------------------------
\* C1: when every submitted job returns and none panics, each job handed to
\* execute is eventually run to completion, under fair scheduling of the
\* worker threads, whether or not disposal has started.
C1_AllJobsComplete ==
  ([]AllJobsWellBehaved) =>
    \A j \in JobIds : (kind[j] = "normal") ~> (jstate[j] = "done")

\* MaxJobs well-behaved jobs have all completed on a pool whose disposal
\* began while at least the last of them was still to be run.
C1_Witness ==
  /\ nsub = MaxJobs
  /\ AllJobsWellBehaved
  /\ \A j \in JobIds : jstate[j] = "done"
  /\ sender = "none"

\* C2: every job is removed from the channel at most once and invoked at
\* most once, no two workers hold the same job, and at most one worker at a
\* time is inside the lock + recv step.
C2_NoDuplication ==
  /\ \A j \in JobIds : invoked[j] <= 1
  /\ \A a, b \in 1..Len(taken) : a # b => taken[a] # taken[b]
  /\ \A i, k \in WorkerIdx : (i # k /\ msg[i] > 0) => msg[i] # msg[k]
  /\ Cardinality({i \in WorkerIdx : wpc[i] = "recv"}) <= 1

\* One worker runs a job it dequeued while another worker, having taken the
\* lock after it, is inside recv; two jobs have been dequeued so far.
C2_Witness ==
  /\ \E i, k \in WorkerIdx :
       /\ i # k
       /\ wpc[i] = "job"
       /\ wpc[k] = "recv"
       /\ invoked[msg[i]] = 1
  /\ Len(taken) >= 2

\* C3: once Drop for ThreadPool has returned, every submitted job has
\* completed, the channel is empty and every one of the N workers has
\* stopped.
C3_DisposalPostcondition ==
  caller = "dropped" =>
    /\ \A j \in Submitted : jstate[j] = "done"
    /\ queue = <<>>
    /\ Len(workers) = size
    /\ \A i \in WorkerIdx : wpc[i] = "stopped"

\* Disposal has returned on a pool of MaxSize workers that ran MaxJobs jobs.
C3_Witness ==
  /\ caller = "dropped"
  /\ size = MaxSize
  /\ Cardinality(Submitted) = MaxJobs

\* C4: for N >= 1, new(N) and build(N) create exactly N workers with ids
\* 0..N-1 that share the one consumer handle of the one channel, and the
\* number of workers stays N through execute calls and disposal.
C4_FixedPoolSize ==
  (ctor # "none" /\ size >= 1) =>
    /\ PoolBuilt
    /\ chan = "open"
    /\ Len(workers) = size
    /\ \A i \in WorkerIdx : workers[i].id = i - 1 /\ workers[i].rx = 1
    /\ DOMAIN wpc = WorkerIdx

\* A pool of MaxSize workers made by build, after execute calls and a
\* disposal that has returned.
C4_Witness ==
  /\ ctor = "build"
  /\ size = MaxSize
  /\ nsub > 0
  /\ caller = "dropped"

\* C5: build(0) returns Err(PoolCreationError::SizeZero) and leaves no
\* worker, no thread, no channel and no pool behind.
C5_BuildZero ==
  (ctor = "build" /\ size = 0) =>
    /\ result = "Err(SizeZero)"
    /\ caller = "buildErr"
    /\ workers = <<>>
    /\ wpc = <<>>
    /\ chan = "none"
    /\ sender = "none"

\* build was called with size 0 and has returned.
C5_Witness == ctor = "build" /\ size = 0 /\ caller # "start"

\* C6: new(0) panics on its assertion before a channel is created or a
\* worker is spawned, and returns no pool.
C6_NewZero ==
  (ctor = "new" /\ size = 0) =>
    /\ result = "panic"
    /\ caller = "aborted"
    /\ workers = <<>>
    /\ wpc = <<>>
    /\ chan = "none"
    /\ sender = "none"

\* new was called with size 0.
C6_Witness == ctor = "new" /\ size = 0 /\ caller # "start"

\* C7: in a pool of N >= 2 workers with one job that never returns (and no
\* job that panics), the blocking job occupies one worker only and every
\* other job is still eventually run to completion by the remaining workers.
C7_BlockingJobIsolated ==
  ([](OneBlockingJob /\ size # 1)) =>
    /\ [](Cardinality({i \in WorkerIdx :
                         wpc[i] = "job" /\ kind[msg[i]] = "block"}) <= 1)
    /\ \A j \in JobIds : (kind[j] = "normal") ~> (jstate[j] = "done")

\* The first job never returns and is running on a worker; every job
\* submitted after it has completed.
C7_Witness ==
  /\ size >= 2
  /\ nsub = MaxJobs
  /\ kind[1] = "block"
  /\ jstate[1] = "running"
  /\ \A j \in JobIds \ {1} : kind[j] = "normal" /\ jstate[j] = "done"

\* C8: jobs leave the channel in submission order: job numbers are given in
\* the order of the execute calls, and the sequence of dequeued jobs is
\* increasing. Completion order is not constrained.
C8_FifoHandOff ==
  /\ \A a, b \in 1..Len(taken) : a < b => taken[a] < taken[b]
  /\ \A a \in 1..Len(taken), b \in 1..Len(queue) : taken[a] < queue[b]

\* All jobs were dequeued in submission order, and a later job completed
\* while an earlier one is still running.
C8_Witness ==
  /\ Len(taken) = MaxJobs
  /\ \E a, b \in JobIds : a < b /\ jstate[a] = "running" /\ jstate[b] = "done"

\* C9: while the Sender is present and some worker thread is alive, execute
\* is never blocked, appends the job at the tail of the channel and returns,
\* however many jobs are queued or workers busy; execute fails only when no
\* Receiver is left.
C9_ExecuteSucceeds ==
  /\ []((caller = "live" /\ sender = "some" /\ Receivers > 0 /\ nsub < MaxJobs)
          => ENABLED Execute("normal"))
  /\ [][(nsub' = nsub + 1 /\ sender = "some" /\ Receivers > 0)
          => /\ queue' = Append(queue, nsub')
             /\ jstate'[nsub'] = "queued"
             /\ caller' = "live"]_vars
  /\ [][(nsub' = nsub + 1 /\ caller' = "execPanicked") => Receivers = 0]_vars

\* Every worker is busy running a job, jobs are already waiting in the
\* channel, and the last execute call has queued one more behind them.
C9_Witness ==
  /\ size >= 1
  /\ \A i \in WorkerIdx : wpc[i] = "job"
  /\ Len(queue) >= 2
  /\ queue[Len(queue)] = nsub

\* C10: when a job panics on a worker, every other submitted job that
\* returns is still eventually run to completion, for every pool size
\* N >= 1 (no job blocks).
C10_FailingJobIsolated ==
  ([]NoBlockingJob) =>
    \A j \in JobIds :
      (kind[j] = "normal" /\ jstate[j] = "queued") ~> (jstate[j] = "done")

\* C11: when jobs have panicked on workers, disposal still runs to its end:
\* it does not itself fail, and it leaves no worker un-joined behind it.
C11_DisposalSurvivesPanics ==
  (\E j \in JobIds : jstate[j] = "panicked") =>
    /\ caller # "dropPanicked"
    /\ caller = "dropped" => \A i \in WorkerIdx : workers[i].thread = "none"

\* C12: an execute call made while the Sender is absent or while no Receiver
\* is left ends in a panic of the caller; the job is not queued, is never
\* run, and stays rejected.
C12_UndeliverableIsSignalled ==
  /\ [][(nsub' = nsub + 1 /\ (sender = "none" \/ Receivers = 0))
          => /\ caller' = "execPanicked"
             /\ queue' = queue
             /\ jstate'[nsub'] = "rejected"]_vars
  /\ [](\A j \in JobIds :
          jstate[j] = "rejected" =>
            /\ invoked[j] = 0
            /\ \A n \in 1..Len(queue) : queue[n] # j
            /\ \A n \in 1..Len(taken) : taken[n] # j)
  /\ [][\A j \in JobIds :
          jstate[j] = "rejected" => jstate'[j] = "rejected"]_vars

\* Every worker thread has ended by a panic of its job, and the execute call
\* that followed was rejected with a panic of the caller.
C12_Witness ==
  /\ size >= 1
  /\ Receivers = 0
  /\ caller = "execPanicked"
  /\ jstate[nsub] = "rejected"

\* The number a client reads from the digits of a Content-Length header.
RECURSIVE ParseDecimal(_)
ParseDecimal(ds) ==
  IF ds = <<>> THEN 0
  ELSE 10 * ParseDecimal(SubSeq(ds, 1, Len(ds) - 1)) + ds[Len(ds)]

\* C13: the handler answers 200 OK with the home text for exactly
\* "GET / HTTP/1.1", 200 OK with the about text for exactly
\* "GET /about HTTP/1.1" and 404 NOT FOUND with the not-found text for every
\* other line; the Content-Length header is the byte length of the body.
C13_HandlerResponse ==
  hpc = "responded" =>
    /\ request = "GET / HTTP/1.1" =>
         /\ response.status_line = "HTTP/1.1 200 OK"
         /\ response.body = Bytes(files["home.html"])
    /\ request = "GET /about HTTP/1.1" =>
         /\ response.status_line = "HTTP/1.1 200 OK"
         /\ response.body = Bytes(files["about.html"])
    /\ request \notin {"GET / HTTP/1.1", "GET /about HTTP/1.1"} =>
         /\ response.status_line = "HTTP/1.1 404 NOT FOUND"
         /\ response.body = Bytes(files["404.html"])
    /\ response.content_length # <<>>
    /\ ParseDecimal(response.content_length) = Len(response.body)

\* The about page was served: its text has multi-byte characters and a
\* byte length of two digits, and the three files differ.
C13_Witness ==
  /\ hpc = "responded"
  /\ request = "GET /about HTTP/1.1"
  /\ Len(response.body) >= 10
  /\ Len(response.body) > Len(files["about.html"])
  /\ files["home.html"] # files["about.html"]
  /\ files["404.html"] # files["about.html"]

\* C14: when every submitted job returns and none panics, a disposal that
\* has begun eventually returns: every worker observes the closed, drained
\* channel and stops, and every join completes.
C14_DisposalTerminates ==
  ([]AllJobsWellBehaved) =>
    /\ (caller = "dropping") ~> (caller = "dropped")
    /\ \A i \in 1..MaxSize :
         (caller = "dropping" /\ i \in WorkerIdx)
           ~> (i \in WorkerIdx /\ wpc[i] = "stopped")

\* Disposal has returned on a pool of MaxSize workers after MaxJobs
\* well-behaved jobs were submitted and dequeued.
C14_Witness ==
  /\ caller = "dropped"
  /\ size = MaxSize
  /\ nsub = MaxJobs
  /\ AllJobsWellBehaved
  /\ Len(taken) = MaxJobs

C16_NoJobStartsAfterDisposal ==
  [][dropIdx >= 1 =>
       \A j \in JobIds :
         /\ jstate[j] = "running" =>
              jstate'[j] \in {"running", "done", "panicked"}
         /\ jstate[j] # "running" => jstate'[j] # "running"]_vars

\* C16 amended: once disposal has begun, no running job is aborted (it goes
\* on, returns or panics as the job itself decides) and no new job is
\* submitted; a job that starts was dequeued from what was submitted before;
\* disposal does not return while a job is queued, dequeued or running.
C16_DisposalWaitsForSubmittedJobs ==
  /\ [][dropIdx >= 1 =>
          /\ nsub' = nsub
          /\ kind' = kind
          /\ Len(queue') <= Len(queue)
          /\ \A j \in JobIds :
               /\ jstate[j] = "running" =>
                    jstate'[j] \in
                      {"running"}
                        \cup (IF kind[j] = "normal" THEN {"done"} ELSE {})
                        \cup (IF kind[j] = "panic" THEN {"panicked"} ELSE {})
               /\ (jstate[j] # "running" /\ jstate'[j] = "running") =>
                    jstate[j] = "received"]_vars
  /\ [](caller = "dropped" =>
          \A j \in JobIds : jstate[j] \notin {"queued", "received", "running"})

\* Disposal is waiting on a worker while one job is running and another is
\* still in the channel, to be started later.
C16_Witness ==
  /\ caller = "dropping"
  /\ queue # <<>>
  /\ \E j \in JobIds : jstate[j] = "running" /\ kind[j] = "normal"

\* C17: drop removes the Sender before it waits on any worker and joins the
\* workers in construction order: the joined workers are a prefix of the
\* vector, and the wait on a worker starts only when every worker before it
\* has stopped.
C17_DisposalOrder ==
  /\ dropIdx >= 1 => sender = "none"
  /\ \A i \in WorkerIdx :
       /\ workers[i].thread = "none" =>
            i <= dropIdx /\ wpc[i] \in Ended /\ sender = "none"
       /\ i < dropIdx => workers[i].thread = "none" /\ wpc[i] = "stopped"
       /\ i > dropIdx => workers[i].thread = "some"

\* drop has joined worker 0, which had stopped, and is waiting on worker 1,
\* which is still running.
C17_Witness ==
  /\ caller = "dropping"
  /\ dropIdx = 2
  /\ wpc[1] = "stopped"
  /\ wpc[2] \notin Ended

\* C18: the Sender is present from construction until disposal begins and
\* absent from the first step of disposal on; only the first step of drop
\* removes it and nothing restores it.
C18_SenderLifecycle ==
  /\ [](caller \in {"live", "execPanicked"} => sender = "some")
  /\ [](caller \in {"dropping", "dropped", "dropPanicked"} => sender = "none")
  /\ [][(sender = "some" /\ sender' = "none") =>
          /\ caller \in {"live", "execPanicked"}
          /\ caller' = "dropping"
          /\ dropIdx = 0]_vars
  /\ [][(PoolBuilt /\ sender = "none") => sender' = "none"]_vars

\* The pool took jobs while its Sender was present, and disposal, which
\* removed it, is now waiting on a worker.
C18_Witness ==
  /\ caller = "dropping"
  /\ sender = "none"
  /\ nsub = MaxJobs
  /\ dropIdx = 1

\* C19: every job accepted by execute is in exactly one place: in the
\* channel, held by exactly one worker, or finished (returned or panicked);
\* accepted = queued + held + finished.
C19_JobConservation ==
  LET accepted == {j \in JobIds : jstate[j] \notin {"unsubmitted", "rejected"}}
      inQueue(j) == \E n \in 1..Len(queue) : queue[n] = j
      holders(j) == {i \in WorkerIdx : msg[i] = j}
      finished(j) == jstate[j] \in {"done", "panicked"}
      places(j) == (IF inQueue(j) THEN 1 ELSE 0) + Cardinality(holders(j))
                     + (IF finished(j) THEN 1 ELSE 0)
  IN /\ \A j \in accepted : places(j) = 1
     /\ Cardinality(accepted)
          = Len(queue)
            + Cardinality({j \in JobIds : holders(j) # {}})
            + Cardinality({j \in JobIds : finished(j)})

\* C20: no worker holds the guard of the Receiver's Mutex outside recv: a
\* worker running a job does not hold it, the holder is always a worker
\* inside recv, and the Mutex is never poisoned.
C20_LockNotHeldDuringJob ==
  /\ \A i \in WorkerIdx : wpc[i] \in {"match", "job"} => lockHolder # i
  /\ lockHolder # Free => wpc[lockHolder] = "recv"
  /\ ~poisoned

\* One worker runs a job that never returns while a different worker holds
\* the lock inside recv.
C20_Witness ==
  \E i, k \in WorkerIdx :
    /\ i # k
    /\ wpc[i] = "job"
    /\ kind[msg[i]] = "block"
    /\ lockHolder = k
    /\ wpc[k] = "recv"

====
